---- MODULE Spec2Model ----
\* Model of "Assignment 1/book_scraper.py": the start-up dependency probe, the
\* command-line dispatch, the preview branch, the pagination driver
\* scrape_all_pages and the pure helpers it uses (str.strip, str.replace,
\* str.lower, float, urljoin, extract_rating_int).
\*
\* Strings are sequences of one-character strings, so that strip, replace,
\* lower and float are computed character by character.
EXTENDS Integers, Sequences, FiniteSets, TLC

\* ------------------------------------------------------------------ bounds
MaxFetches == 3        \* GETs a run of the model may issue
MaxItems == 2          \* item containers on one page
MaxTokens == 3         \* class tokens on one rating indicator
MaxTestCount == 3      \* largest --test-count value tried

\* ----------------------------------------------------------------- strings
\* Python's None, as a value distinct from every rating, price and count.
None == 0 - 1

RECURSIVE LStrip(_)
\* str.lstrip(): drop leading white space.
LStrip(s) == IF s # <<>> /\ Head(s) = " " THEN LStrip(Tail(s)) ELSE s

RECURSIVE RStrip(_)
\* str.rstrip(): drop trailing white space.
RStrip(s) ==
  IF s # <<>> /\ s[Len(s)] = " " THEN RStrip(SubSeq(s, 1, Len(s) - 1)) ELSE s

\* str.strip()
Strip(s) == RStrip(LStrip(s))

\* str.replace(c, ''): every occurrence of the character c is removed.
RemoveChar(s, c) == SelectSeq(s, LAMBDA x : x # c)

\* str.lower() on one character (the letters that occur in the class tokens).
LowerChar(c) ==
  CASE c = "S" -> "s" [] c = "T" -> "t" [] c = "A" -> "a" [] c = "R" -> "r"
    [] c = "I" -> "i" [] c = "N" -> "n" [] c = "G" -> "g" [] c = "O" -> "o"
    [] c = "E" -> "e" [] c = "W" -> "w" [] c = "H" -> "h" [] c = "F" -> "f"
    [] c = "U" -> "u" [] c = "V" -> "v" [] c = "X" -> "x"
    [] OTHER -> c

\* str.lower()
Lower(s) == [i \in 1..Len(s) |-> LowerChar(s[i])]

\* ------------------------------------------------------ extract_rating_int
star_rating == <<"s","t","a","r","-","r","a","t","i","n","g">>
one == <<"o","n","e">>
two == <<"t","w","o">>
three == <<"t","h","r","e","e">>
four == <<"f","o","u","r">>
five == <<"f","i","v","e">>

\* mapping.get(word): the dict of lines 41-47; a missing key gives None.
mapping(word) ==
  CASE word = one -> 1
    [] word = two -> 2
    [] word = three -> 3
    [] word = four -> 4
    [] word = five -> 5
    [] OTHER -> None

\* The list comprehension of line 37.
words(classes) == SelectSeq(classes, LAMBDA c : Lower(c) # star_rating)

\* A plausible slip: the marker is compared without lower().
extract_rating_int_cs(star_tag) ==
  IF star_tag = <<>> THEN None
  ELSE LET ws == SelectSeq(star_tag[1], LAMBDA c : c # star_rating)
       IN IF ws = <<>> THEN None ELSE mapping(Lower(ws[1]))

\* extract_rating_int(star_tag).  star_tag is <<>> for None and <<classes>>
\* for a tag whose class list is classes (star_tag.get('class', [])).
extract_rating_int(star_tag) ==
  IF star_tag = <<>> THEN None
  ELSE LET ws == words(star_tag[1])
       IN IF ws = <<>> THEN None ELSE mapping(Lower(ws[1]))

\* ------------------------------------------------------------------- float
Digits == {"0","1","2","3","4","5","6","7","8","9"}

DigitVal(c) ==
  CASE c = "0" -> 0 [] c = "1" -> 1 [] c = "2" -> 2 [] c = "3" -> 3
    [] c = "4" -> 4 [] c = "5" -> 5 [] c = "6" -> 6 [] c = "7" -> 7
    [] c = "8" -> 8 [] c = "9" -> 9

RECURSIVE IntVal(_)
\* The value of a (possibly empty) string of decimal digits.
IntVal(ds) ==
  IF ds = <<>> THEN 0
  ELSE 10 * IntVal(SubSeq(ds, 1, Len(ds) - 1)) + DigitVal(ds[Len(ds)])

\* float(s) on decimal literals: white space around the literal is ignored,
\* then [sign] digits [. digits] or [sign] . digits.  The result is
\* [ok |-> FALSE] for ValueError, else the value in hundredths (the prices of
\* the model carry at most two decimals).  Exponents, "inf", "nan" and "_"
\* are outside the alphabet of the model.
float(s) ==
  LET t == Strip(s)
      signed == t # <<>> /\ t[1] \in {"+", "-"}
      body == IF signed THEN Tail(t) ELSE t
      dots == {i \in 1..Len(body) : body[i] = "."}
      dot == IF dots = {} THEN Len(body) + 1 ELSE CHOOSE i \in dots : TRUE
      ip == SubSeq(body, 1, dot - 1)
      fp == SubSeq(body, dot + 1, Len(body))
      fp2 == SubSeq(fp \o <<"0","0">>, 1, 2)
      wellformed ==
        /\ Cardinality(dots) <= 1
        /\ \A i \in 1..Len(body) : body[i] \in Digits \cup {"."}
        /\ Len(ip) + Len(fp) >= 1
      magnitude == 100 * IntVal(ip) + IntVal(fp2)
  IN IF ~wellformed THEN [ok |-> FALSE, val |-> 0]
     ELSE [ok |-> TRUE,
           val |-> IF signed /\ t[1] = "-" THEN 0 - magnitude ELSE magnitude]

\* ----------------------------------------------------------------- urljoin
\* A URL is [host, path]: path is the sequence of its /-separated segments
\* (<<>> for the bare host).  An href is [kind, host, segs]: kind "abs" for
\* a full URL, "root" for "/a/b", "rel" for "a/b", "../a" and "".
RECURSIVE Resolve(_, _)
\* urllib.parse.urljoin's segment loop: ".." pops a segment if there is one,
\* "." is dropped, everything else is appended.
Resolve(done, todo) ==
  IF todo = <<>> THEN done
  ELSE IF Head(todo) = ".."
       THEN Resolve(IF done = <<>> THEN done
                    ELSE SubSeq(done, 1, Len(done) - 1), Tail(todo))
       ELSE IF Head(todo) = "." THEN Resolve(done, Tail(todo))
       ELSE Resolve(Append(done, Head(todo)), Tail(todo))

\* urljoin(base, href)
urljoin(base, href) ==
  IF href.kind = "abs" THEN [host |-> href.host, path |-> href.segs]
  ELSE IF href.kind = "root"
       THEN [host |-> base.host, path |-> Resolve(<<>>, href.segs)]
  ELSE IF href.segs = <<>> THEN base
  ELSE LET dir == IF base.path = <<>> THEN <<>>
                  ELSE SubSeq(base.path, 1, Len(base.path) - 1)
       IN [host |-> base.host, path |-> Resolve(dir, href.segs)]

\* ------------------------------------------------------------ page content
\* An item container (article.product_pod).  h3 is "none" (no heading),
\* "no_a" (a heading without a link) or "a"; title, price and star hold zero
\* or one value: the link's title attribute, the text of p.price_color, the
\* class list of the first p that carries a class list with a rating marker.
ItemGood ==
  [h3 |-> "a", title |-> << <<" ","A"," ">> >>,
   price |-> << <<" ","£","5","1",".","7","7">> >>,
   star |-> << <<star_rating, <<"T","h","r","e","e">> >> >>]

ItemNeg ==
  [h3 |-> "a", title |-> <<>>, price |-> << <<"£","-","1",".","5">> >>,
   star |-> <<>>]

ItemNoH3 == [ItemGood EXCEPT !.h3 = "none"]

ItemNoA == [ItemGood EXCEPT !.h3 = "no_a"]

ItemNoPrice == [ItemGood EXCEPT !.price = <<>>]

ItemBadPrice == [ItemGood EXCEPT !.price = << <<"£","1",".","2",".","3">> >>]

ItemKinds ==
  {ItemGood, ItemNeg, ItemNoH3, ItemNoA, ItemNoPrice, ItemBadPrice}

\* The containers of one page are pairwise different elements.
ItemLists ==
  UNION {{its \in [1..n -> ItemKinds] :
            \A i, j \in 1..n : i # j => its[i] # its[j]} : n \in 0..MaxItems}

\* The hrefs a next link may carry: those of the site ("catalogue/page-2.html"
\* on the front page, "page-3.html" below it).
HrefCatalogue == [kind |-> "rel", host |-> "", segs |-> <<"catalogue", "page-2.html">>]

HrefSibling == [kind |-> "rel", host |-> "", segs |-> <<"page-3.html">>]

Hrefs == {HrefCatalogue, HrefSibling}

\* The pagination element of a page: "none" (no li.next), "li" (li.next with
\* no link inside), "a" (a link without href), "href" (a link with an href).
Nexts ==
  {[kind |-> k, href |-> HrefSibling] : k \in {"none", "li", "a"}}
    \cup {[kind |-> "href", href |-> h] : h \in Hrefs}

Pages == {[items |-> its, next |-> n] : its \in ItemLists, n \in Nexts}

NoPage == [items |-> <<>>, next |-> [kind |-> "none", href |-> HrefSibling]]

\* ------------------------------------------------------------ item parsing
\* book.find('p', class_='star-rating'): the tag, if its class list holds the
\* marker exactly as written; <<>> stands for None.
find_star(book) ==
  IF book.star # <<>> /\ \E i \in 1..Len(book.star[1]) : book.star[1][i] = star_rating
  THEN book.star ELSE <<>>

\* One pass of the body of "for book in books" (lines 77-87): the record, or
\* the exception the pass raises.
ParseBook(book) ==
  IF book.h3 # "a" \/ book.price = <<>>
  THEN [ok |-> FALSE, err |-> "AttributeError"]
  ELSE LET title == Strip(IF book.title = <<>> THEN <<>> ELSE book.title[1])
           price_text == Strip(book.price[1])
           price == float(Strip(RemoveChar(price_text, "£")))
           rating == extract_rating_int(find_star(book))
       IN IF ~price.ok THEN [ok |-> FALSE, err |-> "ValueError"]
          ELSE [ok |-> TRUE,
                rec |-> [title |-> title, price |-> price.val, rating |-> rating]]

\* ParseBook on every container of the model, computed once.
ParseBookTable == [book \in ItemKinds |-> ParseBook(book)]

RECURSIVE ParseBooksSkipping(_)
\* A plausible slip: a container that cannot be parsed is skipped.
ParseBooksSkipping(books) ==
  IF books = <<>> THEN [ok |-> TRUE, err |-> "", recs |-> <<>>]
  ELSE LET r == ParseBookTable[Head(books)]
           rest == ParseBooksSkipping(Tail(books))
       IN IF r.ok THEN [rest EXCEPT !.recs = <<r.rec>> \o @] ELSE rest

RECURSIVE ParseBooks(_)
\* The loop "for book in books": the records appended, in document order, up
\* to the first pass that raises.
ParseBooks(books) ==
  IF books = <<>> THEN [ok |-> TRUE, err |-> "", recs |-> <<>>]
  ELSE LET r == ParseBookTable[Head(books)]
       IN IF ~r.ok THEN [ok |-> FALSE, err |-> r.err, recs |-> <<>>]
          ELSE LET rest == ParseBooks(Tail(books))
               IN [rest EXCEPT !.recs = <<r.rec>> \o @]

\* books[:n], Python's slice: a negative n counts from the end.
SliceTo(books, n) ==
  IF n >= 0 THEN SubSeq(books, 1, IF n < Len(books) THEN n ELSE Len(books))
  ELSE SubSeq(books, 1, IF Len(books) + n > 0 THEN Len(books) + n ELSE 0)

\* ------------------------------------------------------------------- state
VARIABLES
  deps,       \* which of requests, bs4, pandas can be imported
  args,       \* the parsed command line: [test, test_count]
  pc,         \* where the program is
  pd,         \* the module global pd: TRUE for the module, FALSE for None
  url,        \* scrape_all_pages: the URL of the next GET
  results,    \* the records accumulated so far
  page_num,   \* scrape_all_pages: the page counter
  soup,       \* the parsed page in hand
  df,         \* what scrape_all_pages returned: <<>> or <<rows>>
  file,       \* the output file: <<>> or <<rows>>
  stdout,     \* the records printed by the preview branch
  message,    \* the SystemExit message or the name of the uncaught exception
  log,        \* every GET issued: [url, status, page]
  star_tag,   \* the argument of a call of extract_rating_int on its own
  rating      \* its result; the string "pending" before the call

vars ==
  <<deps, args, pc, pd, url, results, page_num, soup, df, file, stdout,
    message, log, star_tag, rating>>

base_url == [host |-> "books.toscrape.com", path |-> <<>>]

DefaultTestCount == 10

TestCounts == (0 - 1)..MaxTestCount

MsgRequests == "Missing dependency 'requests'. Install with: python3 -m pip install --user requests"

MsgBs4 == "Missing dependency 'beautifulsoup4'. Install with: python3 -m pip install --user beautifulsoup4"

MsgPandas == "Missing dependency 'pandas'. Install with: python3 -m pip install --user pandas"

\* The outcomes of one GET: a 2xx response, a non-2xx response (raised by
\* raise_for_status), a timeout or a connection error (raised by requests.get).
Statuses == {"ok", "http_error", "timeout", "connection_error"}

Init ==
  /\ deps \in [requests : BOOLEAN, bs4 : BOOLEAN, pandas : BOOLEAN]
  /\ args \in {[test |-> FALSE, test_count |-> DefaultTestCount]}
                \cup {[test |-> TRUE, test_count |-> c] : c \in TestCounts}
  /\ pc = "imports"
  /\ pd = FALSE
  /\ url = base_url
  /\ results = <<>>
  /\ page_num = 1
  /\ soup = NoPage
  /\ df = <<>>
  /\ file = <<>>
  /\ stdout = <<>>
  /\ message = ""
  /\ log = <<>>
  /\ star_tag = <<>>
  /\ rating = "unused"

\* ----------------------------------------------------------------- start-up
\* Lines 8-27: the three guarded imports.
Imports ==
  /\ pc = "imports"
  /\ IF ~deps.requests THEN pc' = "exit" /\ message' = MsgRequests /\ pd' = pd
     ELSE IF ~deps.bs4 THEN pc' = "exit" /\ message' = MsgBs4 /\ pd' = pd
     ELSE pc' = "main" /\ message' = message /\ pd' = deps.pandas
  /\ UNCHANGED <<deps, args, url, results, page_num, soup, df, file, stdout,
                 log, star_tag, rating>>

\* A plausible slip: the full run does not look at pd.
PandasMissingIgnored(p) == FALSE

\* Line 137: "if pd is None".
PandasMissing(p) == p = FALSE

\* Lines 108-120 and 135-139, with lines 57-60 of scrape_all_pages: the
\* dispatch on --test, up to the first GET of the chosen branch.
Main ==
  /\ pc = "main"
  /\ IF args.test THEN pc' = "preview_fetching" /\ message' = message
     ELSE IF PandasMissing(pd) THEN pc' = "exit" /\ message' = MsgPandas
     ELSE pc' = "fetching" /\ message' = message
  /\ url' = base_url
  /\ results' = <<>>
  /\ page_num' = 1
  /\ UNCHANGED <<deps, args, pd, soup, df, file, stdout, log, star_tag, rating>>

\* --------------------------------------------------------- scrape_all_pages
\* A plausible slip: raise_for_status() is left out, so a non-2xx response is
\* parsed like any other.
FetchFailsNoStatusCheck(status) == status \in {"timeout", "connection_error"}

\* Lines 64-65: requests.get raises on a timeout or a connection error,
\* raise_for_status on a non-2xx status.
FetchFails(status) == status # "ok"

\* A plausible slip: a page limit on the loop.
WhileLimited(n) == n <= 2

\* Line 62: "while True".
WhileTrue(n) == TRUE

\* Lines 62-65: one GET of the loop.  A 2xx response carries any page; the
\* body of a non-2xx response is a page without containers.  The loop itself
\* has no bound: Len(log) < MaxFetches is the bound of the model.
Fetch ==
  /\ pc = "fetching"
  /\ Len(log) < MaxFetches
  /\ IF ~WhileTrue(page_num)
     THEN /\ pc' = "returned"
          /\ df' = <<results>>
          /\ UNCHANGED <<soup, log, message>>
     ELSE \E status \in Statuses :
          \E page \in (IF status = "ok" THEN Pages ELSE {NoPage}) :
            /\ log' = Append(log, [url |-> url, status |-> status, page |-> page])
            /\ IF FetchFails(status)
               THEN pc' = "error" /\ message' = status /\ soup' = soup
               ELSE pc' = "parsing" /\ message' = message /\ soup' = page
            /\ df' = df
  /\ UNCHANGED <<deps, args, pd, url, results, page_num, file, stdout,
                 star_tag, rating>>

\* A plausible slip: the empty page does not end the loop.
NoBooksIgnored(books) == FALSE

\* Line 72: "if not books".
NoBooks(books) == books = <<>>

\* A plausible slip: the marker alone counts as a next link.
HasNextLinkMarkerOnly(page) == page.next.kind # "none"

\* Line 94: "next_li and next_li.find('a')".
HasNextLink(page) == page.next.kind \in {"a", "href"}

\* A plausible slip: a page's records are put in front of the earlier ones.
AccumulateInFront(sofar, recs) == recs \o sofar

\* Line 87, over one page: results.append for each record in turn.
Accumulate(sofar, recs) == sofar \o recs

\* A plausible slip: the next link is resolved against the base URL.
ResolveNextAgainstBase(current, href) == urljoin(base_url, href)

\* Line 96: url = urljoin(url, next_href).
ResolveNext(current, href) == urljoin(current, href)

\* Lines 104-105 after a break: the frame built from results.
Return(rows) ==
  IF pd THEN pc' = "returned" /\ df' = <<rows>> /\ message' = message
  ELSE pc' = "error" /\ df' = df /\ message' = "AttributeError"

\* Lines 68-105: the rest of one pass of the loop on the page in hand.
ParsePage ==
  /\ pc = "parsing"
  /\ IF NoBooks(soup.items)
     THEN Return(results) /\ UNCHANGED <<results, page_num, url>>
     ELSE LET parsed == ParseBooks(soup.items)
              sofar == Accumulate(results, parsed.recs)
          IN /\ results' = sofar
             /\ IF ~parsed.ok
                THEN /\ pc' = "error" /\ message' = parsed.err
                     /\ UNCHANGED <<page_num, url, df>>
                ELSE /\ page_num' = page_num + 1
                     /\ IF HasNextLink(soup)
                        THEN IF soup.next.kind # "href"
                             THEN /\ pc' = "error" /\ message' = "KeyError"
                                  /\ UNCHANGED <<url, df>>
                             ELSE /\ url' = ResolveNext(url, soup.next.href)
                                  /\ pc' = "fetching"
                                  /\ UNCHANGED <<df, message>>
                        ELSE Return(sofar) /\ url' = url
  /\ UNCHANGED <<deps, args, pd, soup, file, stdout, log, star_tag, rating>>

\* Lines 140-141: the frame is written to the output file.
Save ==
  /\ pc = "returned"
  /\ file' = df
  /\ pc' = "saved"
  /\ UNCHANGED <<deps, args, pd, url, results, page_num, soup, df, stdout,
                 message, log, star_tag, rating>>

\* ----------------------------------------------------------- preview branch
\* Lines 119-122: the single GET of the preview branch.
PreviewFetch ==
  /\ pc = "preview_fetching"
  /\ \E status \in Statuses :
     \E page \in (IF status = "ok" THEN Pages ELSE {NoPage}) :
       /\ log' = Append(log, [url |-> url, status |-> status, page |-> page])
       /\ IF FetchFails(status)
          THEN pc' = "error" /\ message' = status /\ soup' = soup
          ELSE pc' = "preview_parsing" /\ message' = message /\ soup' = page
  /\ UNCHANGED <<deps, args, pd, url, results, page_num, df, file, stdout,
                 star_tag, rating>>

\* Lines 123-134: the first test_count containers are parsed and printed.
PreviewParse ==
  /\ pc = "preview_parsing"
  /\ LET parsed == ParseBooks(SliceTo(soup.items, args.test_count))
     IN /\ results' = parsed.recs
        /\ IF parsed.ok
           THEN pc' = "preview_done" /\ stdout' = parsed.recs /\ message' = message
           ELSE pc' = "error" /\ stdout' = stdout /\ message' = parsed.err
  /\ UNCHANGED <<deps, args, pd, url, page_num, soup, df, file, log,
                 star_tag, rating>>

Next == Imports \/ Main \/ Fetch \/ ParsePage \/ Save \/ PreviewFetch \/ PreviewParse

Spec == Init /\ [][Next]_vars

\* ------------------------------------------- extract_rating_int on its own
\* The class tokens tried: the marker and the rank words in several letter
\* cases, and a word that is no rank.
Tokens ==
  {star_rating,
   <<"S","t","a","r","-","R","a","t","i","n","g">>,
   <<"O","n","e">>,
   two,
   <<"T","h","r","e","e">>,
   <<"F","O","U","R">>,
   <<"f","i","V","e">>,
   <<"S","i","x">>}

TokenLists == UNION {[1..n -> Tokens] : n \in 0..MaxTokens}

\* A call of extract_rating_int with no indicator or with any class list.
RatingInit ==
  /\ star_tag \in {<<>>} \cup {<<cl>> : cl \in TokenLists}
  /\ rating = "pending"
  /\ pc = "decoding"
  /\ deps = [requests |-> TRUE, bs4 |-> TRUE, pandas |-> TRUE]
  /\ args = [test |-> FALSE, test_count |-> DefaultTestCount]
  /\ pd = TRUE
  /\ url = base_url
  /\ results = <<>>
  /\ page_num = 1
  /\ soup = NoPage
  /\ df = <<>>
  /\ file = <<>>
  /\ stdout = <<>>
  /\ message = ""
  /\ log = <<>>

\* Lines 30-48.
Decode ==
  /\ pc = "decoding"
  /\ rating' = extract_rating_int(star_tag)
  /\ pc' = "decoded"
  /\ UNCHANGED <<deps, args, pd, url, results, page_num, soup, df, file,
                 stdout, message, log, star_tag>>

RatingNext == Decode

RatingSpec == RatingInit /\ [][RatingNext]_vars

\* ------------------------------------------------------------------ claims
RankWords == <<one, two, three, four, five>>

SameIgnoringCase(a, b) ==
  Len(a) = Len(b) /\ \A i \in 1..Len(a) : LowerChar(a[i]) = LowerChar(b[i])

IsMarker(tok) == SameIgnoringCase(tok, star_rating)

IsRank(tok) == \E k \in 1..5 : SameIgnoringCase(tok, RankWords[k])

\* The reference decoder of the claim: the first token that is not the
\* marker decides.
RefRating(tag) ==
  IF tag = <<>> THEN None
  ELSE LET cl == tag[1]
           rest == {i \in 1..Len(cl) : ~IsMarker(cl[i])}
       IN IF rest = {} THEN None
          ELSE LET first == CHOOSE i \in rest : \A j \in rest : i <= j
               IN IF IsRank(cl[first])
                  THEN CHOOSE k \in 1..5 : SameIgnoringCase(cl[first], RankWords[k])
                  ELSE None

\* C5: extract_rating_int returns what the reference decoder returns on every
\* input, always a value among absent and 1..5; a class list made of markers
\* and exactly one rank word, in any letter case, decodes to that rank; a
\* class list without a rank word, and an absent indicator, decode to absent.
C5_RatingDecoder ==
  pc = "decoded" =>
    /\ rating = RefRating(star_tag)
    /\ rating \in {None} \cup 1..5
    /\ star_tag = <<>> => rating = None
    /\ star_tag # <<>> =>
         LET cl == star_tag[1]
             ranks == {i \in 1..Len(cl) : IsRank(cl[i])}
         IN /\ ranks = {} => rating = None
            /\ (Cardinality(ranks) = 1
                /\ \A i \in 1..Len(cl) : i \in ranks \/ IsMarker(cl[i]))
               => /\ rating \in 1..5
                  /\ \E i \in ranks : SameIgnoringCase(cl[i], RankWords[rating])

C5_Witness ==
  /\ pc = "decoded"
  /\ star_tag = << << <<"S","t","a","r","-","R","a","t","i","n","g">>,
                      <<"F","O","U","R">> >> >>
  /\ rating = 4

\* ---------------------------------------------------- claims on the driver
FullRun == ~args.test

\* The driver has left its loop normally.
DriverDone == pc \in {"returned", "saved"}

\* A container the loop body cannot turn into a record.
Malformed(item) ==
  \/ item.h3 # "a"
  \/ item.price = <<>>
  \/ ~float(RemoveChar(item.price[1], "£")).ok

MalformedKinds == {item \in ItemKinds : Malformed(item)}

HasMalformed(page) == \E i \in 1..Len(page.items) : page.items[i] \in MalformedKinds

\* The page carries a next marker with a link in it that has an href.
HasNextHref(page) == page.next.kind = "href"

\* The page carries no next link: no marker, or a marker without a link.
NoNextLink(page) == page.next.kind \in {"none", "li"}

\* An interior page of a chain: containers, all well-formed, and a next link.
Interior(e) ==
  /\ e.status = "ok"
  /\ e.page.items # <<>>
  /\ ~HasMalformed(e.page)
  /\ HasNextHref(e.page)

\* The last page of a chain: containers, all well-formed, and no next link.
Last(e) ==
  /\ e.status = "ok"
  /\ e.page.items # <<>>
  /\ ~HasMalformed(e.page)
  /\ NoNextLink(e.page)

\* The first k GETs of the run walked a linear chain of k pages.
Chain(k) == Last(log[k]) /\ \A i \in 1..(k - 1) : Interior(log[i])

RecGood == [title |-> <<"A">>, price |-> 5177, rating |-> 3]

RecNeg == [title |-> <<>>, price |-> 0 - 150, rating |-> None]

\* The record of a well-formed container of the model, written out.
ExpectedRecord(item) == IF item = ItemGood THEN RecGood ELSE RecNeg

ExpectedRecords(items) == [i \in 1..Len(items) |-> ExpectedRecord(items[i])]

RECURSIVE ChainRecords(_)
\* The records of pages 1..k, page after page.
ChainRecords(k) ==
  IF k = 0 THEN <<>>
  ELSE ChainRecords(k - 1) \o ExpectedRecords(log[k].page.items)

\* C1: when the pages served form a linear chain of k pages, the full run
\* issues exactly k GETs, the first to the base URL and each later one to the
\* successor named by the page before, never stops with an error, and
\* returns the records of page 1, then page 2, ..., then page k, each page's
\* in document order.
C1_LinearChain ==
  FullRun =>
    \A k \in 1..Len(log) :
      Chain(k) =>
        /\ Len(log) = k
        /\ log[1].url = base_url
        /\ \A i \in 1..(k - 1) :
             log[i + 1].url = urljoin(log[i].url, log[i].page.next.href)
        /\ pc \in {"parsing", "returned", "saved"}
        /\ DriverDone => df = <<ChainRecords(k)>>

C1_Witness ==
  /\ FullRun
  /\ pc = "returned"
  /\ Len(log) = 2
  /\ Chain(2)
  /\ log[1].page.items = <<ItemNeg, ItemGood>>
  /\ log[2].page.items = <<ItemGood>>
  /\ df = << <<RecNeg, RecGood, RecGood>> >>

\* The page in hand goes through the rest of the loop body without raising.
ParsesCleanly(page) ==
  page.items = <<>> \/ (~HasMalformed(page) /\ page.next.kind # "a")

\* C2: after a page was fetched and parsed without error the driver is done
\* exactly if the page has no containers or no next link (a marker without a
\* link is no next link); otherwise it goes on to exactly one more GET, of
\* the resolved next link.  Once done it issues no GET.  No containers on
\* the first page: zero records, no error.
C2_DoneIff ==
  [][/\ (pc = "parsing" /\ ParsesCleanly(soup)) =>
          /\ pc' = "returned" <=> (soup.items = <<>> \/ NoNextLink(soup))
          /\ pc' # "returned" =>
               /\ pc' = "fetching"
               /\ log' = log
               /\ url' = urljoin(url, soup.next.href)
          /\ (soup.items = <<>> /\ Len(log) = 1) =>
               df' = << <<>> >> /\ message' = ""
     /\ (pc = "fetching" /\ FullRun) => Len(log') = Len(log) + 1
     /\ DriverDone => log' = log /\ pc' = "saved"
    ]_vars

C2_Witness ==
  /\ pc = "saved"
  /\ Len(log) = 1
  /\ log[1].page.items = <<>>
  /\ HasNextHref(log[1].page)
  /\ file = << <<>> >>

C4_MalformedItemFatal ==
  FullRun =>
    \A j \in 1..Len(log) :
      (log[j].status = "ok" /\ HasMalformed(log[j].page)) =>
        /\ Len(log) = j
        /\ \/ pc = "parsing"
           \/ /\ pc = "error"
              /\ message \in {"AttributeError", "ValueError"}
        /\ df = <<>>
        /\ file = <<>>

C4_Witness ==
  /\ FullRun
  /\ pc = "error"
  /\ Len(log) = 2
  /\ log[2].page.items = <<ItemGood, ItemBadPrice>>
  /\ message = "ValueError"
  /\ results # <<>>
  /\ df = <<>>

\* C6, as claimed: every accumulated record has a non-negative price and a
\* rating that is absent or one of 1..5.
C6_RecordInvariant ==
  \A i \in 1..Len(results) :
    /\ results[i].price >= 0
    /\ results[i].rating \in {None} \cup 1..5

\* The run is over.
Stopped == pc \in {"exit", "error", "saved", "preview_done"}

\* The driver is about to issue the first GET beyond the bound of the model.
AtCap == pc = "fetching" /\ Len(log) = MaxFetches

InDriver == pc \in {"fetching", "parsing", "returned", "saved", "error"}

LastEntry == log[Len(log)]

\* C7: the loop has no page limit.  A full run leaves the loop only on a
\* page without containers or without next link, and ends in an error only
\* on a failed GET or a page that cannot be parsed; after such a page no GET
\* follows and the run goes on to its end.  As long as every page served has
\* containers, all well-formed, and a next link, the driver is never done:
\* the next GET is due, and is issued, whatever the number of pages so far.
C7_NoPageLimit ==
  /\ (FullRun /\ InDriver) =>
       /\ DriverDone =>
            /\ Len(log) >= 1
            /\ LastEntry.status = "ok"
            /\ LastEntry.page.items = <<>> \/ NoNextLink(LastEntry.page)
       /\ pc = "error" =>
            /\ Len(log) >= 1
            /\ \/ LastEntry.status # "ok"
               \/ HasMalformed(LastEntry.page)
               \/ LastEntry.page.next.kind = "a"
       /\ \A j \in 1..Len(log) :
            ~Interior(log[j]) =>
              /\ Len(log) = j
              /\ pc \in {"parsing", "returned", "saved", "error"}
       /\ (\A i \in 1..Len(log) : Interior(log[i])) =>
            /\ pc \in {"fetching", "parsing"}
            /\ pc = "fetching" => page_num = Len(log) + 1
            /\ (pc = "fetching" /\ Len(log) < MaxFetches) => ENABLED Fetch
  /\ \/ Stopped
     \/ AtCap
     \/ pc \in {"parsing", "preview_parsing"}
     \/ ENABLED (Imports \/ Main \/ Fetch \/ Save \/ PreviewFetch)

\* Every GET of the bound was served an interior page, the last two from the
\* same URL (a next link that leads back to its own page).
C7_Witness ==
  /\ FullRun
  /\ AtCap
  /\ \A i \in 1..Len(log) : Interior(log[i])
  /\ log[Len(log)].url = log[Len(log) - 1].url
  /\ url = log[Len(log)].url
  /\ page_num = MaxFetches + 1

\* C8: the first GET goes to the base URL, and every later GET goes to the
\* next href of the page before it resolved against that page's own URL;
\* so "page-3.html" found on /catalogue/page-2.html leads to
\* /catalogue/page-3.html.
C8_ResolveAgainstCurrent ==
  /\ \A i \in 1..Len(log) :
       log[i].url = IF i = 1 THEN base_url
                    ELSE urljoin(log[i - 1].url, log[i - 1].page.next.href)
  /\ (pc = "fetching" /\ Len(log) >= 1) =>
       url = urljoin(LastEntry.url, LastEntry.page.next.href)
  /\ (Len(log) >= 3 /\ log[1].page.next.href = HrefCatalogue
      /\ log[2].page.next.href = HrefSibling) =>
       /\ log[2].url = [host |-> "books.toscrape.com",
                        path |-> <<"catalogue", "page-2.html">>]
       /\ log[3].url = [host |-> "books.toscrape.com",
                        path |-> <<"catalogue", "page-3.html">>]

C8_Witness ==
  /\ Len(log) = 3
  /\ log[1].page.next.href = HrefCatalogue
  /\ log[2].page.next.href = HrefSibling
  /\ log[3].url = [host |-> "books.toscrape.com",
                   path |-> <<"catalogue", "page-3.html">>]

Min(a, b) == IF a < b THEN a ELSE b

\* C9, as claimed: in preview mode, whatever the item count c and the number
\* N of containers on the first page, there is at most one GET, to the base
\* URL, no file is written, the run does not depend on pandas, and what is
\* printed is the records of the first min(c, N) containers (none when that is
\* not positive).
C9_PreviewBounded ==
  args.test =>
    /\ Len(log) <= 1
    /\ \A i \in 1..Len(log) : log[i].url = base_url
    /\ file = <<>>
    /\ pc # "exit" \/ message # MsgPandas
    /\ pc = "preview_done" =>
         LET n == Min(args.test_count, Len(soup.items))
         IN /\ Len(log) = 1
            /\ stdout = ExpectedRecords(SubSeq(soup.items, 1, n))

\* C10: a missing requests or bs4 ends every run at the imports, a missing
\* pandas ends a full run at the dispatch, each with the message that names
\* the pip command for the missing package, before any GET and any file.
C10_MissingDependency ==
  /\ (~deps.requests /\ pc # "imports") =>
       /\ pc = "exit"
       /\ message = "Missing dependency 'requests'. Install with: python3 -m pip install --user requests"
  /\ (deps.requests /\ ~deps.bs4 /\ pc # "imports") =>
       /\ pc = "exit"
       /\ message = "Missing dependency 'beautifulsoup4'. Install with: python3 -m pip install --user beautifulsoup4"
  /\ (deps.requests /\ deps.bs4 /\ ~deps.pandas /\ FullRun
      /\ pc \notin {"imports", "main"}) =>
       /\ pc = "exit"
       /\ message = "Missing dependency 'pandas'. Install with: python3 -m pip install --user pandas"
  /\ pc = "exit" => log = <<>> /\ file = <<>> /\ df = <<>>
  /\ (deps.requests /\ deps.bs4 /\ (deps.pandas \/ ~FullRun)) => pc # "exit"

C10_Witness ==
  /\ pc = "exit"
  /\ FullRun
  /\ ~deps.pandas
  /\ message = MsgPandas
  /\ log = <<>>

====
